---- MODULE Spec2Model ----
(***************************************************************************)
(* Model of subliminal_patch/refiners/drone.py: the Sonarr/Radarr refiner. *)
(*                                                                         *)
(* Strings that the code takes apart (file names, scene names, release     *)
(* groups) are sequences of tokens: "/" is the path separator, "." a dot,  *)
(* Crap one obfuscation suffix, anything else a run of word characters.    *)
(* Python's None is modelled per attribute type: None for text attributes, *)
(* NoneInt for numbers, <<>> for token strings, 0 for numeric ids.         *)
(***************************************************************************)
EXTENDS Integers, Sequences, FiniteSets, TLC

None == "None"
NoneInt == -1
Sep == "/"
Dot == "."
Crap == "-Obfuscated"

\* ---------------------------------------------------------------- bounds
MaxLen == 2
MaxNum == 2

\* ------------------------------------------------------- string helpers
IsWord(t) == t \notin {Sep, Dot, Crap}

RECURSIVE LastIndexOf(_, _, _)
LastIndexOf(s, t, i) ==
  IF i = 0 THEN 0
  ELSE IF s[i] = t THEN i ELSE LastIndexOf(s, t, i - 1)

\* os.path.basename
Basename(p) == SubSeq(p, LastIndexOf(p, Sep, Len(p)) + 1, Len(p))

\* os.path.splitext(p)[1]: the last dot of the last path component starts
\* the extension, unless only dots precede it in that component
SplitExt(p) ==
  LET sepIndex == LastIndexOf(p, Sep, Len(p))
      dotIndex == LastIndexOf(p, Dot, Len(p))
  IN IF dotIndex > sepIndex
        /\ \E k \in (sepIndex + 1)..(dotIndex - 1) : p[k] # Dot
     THEN SubSeq(p, dotIndex, Len(p))
     ELSE <<>>

RemoveAt(s, i) == SubSeq(s, 1, i - 1) \o SubSeq(s, i + 1, Len(s))

\* REMOVE_CRAP_FROM_FILENAME.sub("", s): an obfuscation suffix is removed
\* where it ends the string or directly precedes the final ".ext"
RemoveCrap(s) ==
  LET n == Len(s)
  IN IF n >= 1 /\ s[n] = Crap THEN RemoveAt(s, n)
     ELSE IF n >= 3 /\ s[n - 2] = Crap /\ s[n - 1] = Dot /\ IsWord(s[n])
          THEN RemoveAt(s, n - 2)
          ELSE s

\* dict.get(key, default)
DictGet(d, k, default) == IF k \in DOMAIN d THEN d[k] ELSE default
EmptyDict == <<>>

\* all sequences without repetition over S, of length at most n
DistinctSeqs(S, n) ==
  UNION {{f \in [1..k -> S] : \A i, j \in 1..k : i # j => f[i] # f[j]} : k \in 0..n}

\* ------------------------------------------------- data of the backends
Scene1 == <<"Rel1">>
Scene2 == <<"Rel2", Crap>>

\* records of Sonarr's series endpoint
ShowRecs ==
  { [id |-> 1, title |-> "A", tvdbId |-> 11],
    [id |-> 2, title |-> "B"],
    [id |-> 3, title |-> "A"] }

\* records of Sonarr's episode endpoint; a list holds one record for a
\* season and episode number
Ep(s, e, file) == [seasonNumber |-> s, episodeNumber |-> e, episodeFile |-> file]

EpisodeLists ==
  { <<>>,
    << Ep(2, 1, [sceneName |-> Scene2]), Ep(1, 1, [sceneName |-> Scene1]) >>,
    << Ep(1, 2, [sceneName |-> Scene2]), Ep(1, 1, [sceneName |-> Scene1]) >>,
    << [seasonNumber |-> 1, episodeNumber |-> 1] >>,
    << Ep(1, 1, [sceneName |-> <<>>]), Ep(1, 2, [id |-> 7]) >> }

\* records of Radarr's movie endpoint
MovieRecs ==
  { [id |-> 1, title |-> "A", imdbId |-> "tt1",
     movieFile |-> [relativePath |-> <<"x", Dot, "mkv">>, sceneName |-> Scene2,
                    releaseGroup |-> <<"BRG", Crap>>]],
    [id |-> 2, title |-> "B",
     movieFile |-> [relativePath |-> <<"m", Dot, "mkv">>, releaseGroup |-> <<"BRG">>]],
    [id |-> 3, title |-> "C", imdbId |-> "tt3"] }

SeriesLists == DistinctSeqs(ShowRecs, MaxLen)
MovieLists == DistinctSeqs(MovieRecs, MaxLen)

\* an HTTP response: its status and its JSON body
Ok(json) == [status |-> 200, json |-> json]
Failed == [status |-> 500, json |-> <<>>]
Responses(lists) == {Ok(l) : l \in lists} \cup {Failed}

\* what guessit may make of a file name
Guesses ==
  { [title |-> "G"],
    [title |-> "G", release_group |-> <<"GRP">>],
    [title |-> "G", format |-> "HDTV"],
    [title |-> "G", release_group |-> <<"GRP">>, format |-> "HDTV"] }

\* ------------------------------------------------------------ the videos
Name1 == <<"dir", Sep, "m", Dot, "mkv">>
Name2 == <<"d", Dot, "x", Sep, "noext">>

Video(type, name, series, season, episode, title, tvdb, imdb, rg, fmt) ==
  [type |-> type, name |-> name, series |-> series, season |-> season,
   episode |-> episode, title |-> title, series_tvdb_id |-> tvdb, imdb_id |-> imdb,
   release_group |-> rg, format |-> fmt, original_name |-> <<>>]

EpisodeIds ==
  { <<s, 1, e, t>> : s \in {"A", "B"}, e \in 1..MaxNum, t \in {0, 11} }
    \cup { <<"A", 2, 1, 0>>, <<None, 1, 1, 11>>, <<"A", NoneInt, 1, 0>>, <<"B", 1, NoneInt, 0>> }

MovieIds ==
  { <<t, i>> : t \in {"A", "B", "Z"}, i \in {"", "tt1", "tt3"} } \cup { <<None, "tt1">> }

Presets == { <<Name1, <<>>, None>>, <<Name2, <<"OLD">>, "DVD">> }

Episodes ==
  { Video("Episode", p[1], i[1], i[2], i[3], "T", i[4], "", p[2], p[3]) :
      i \in EpisodeIds, p \in Presets }

Movies ==
  { Video("Movie", p[1], None, NoneInt, NoneInt, i[1], 0, i[2], p[2], p[3]) :
      i \in MovieIds, p \in Presets }

Others ==
  { Video("Video", Name1, None, NoneInt, NoneInt, "A", 0, "tt1", <<>>, None),
    Video("EpisodeSubclass", Name1, "A", 1, 1, "T", 11, "", <<>>, None) }

Videos == Episodes \cup Movies \cup Others

\* ------------------------------------------------------- DroneAPIClient
\* the configuration refine is called with (**kwargs)
CfgKwa == [sonarr |-> [base_url |-> "http://sonarr/"],
           radarr |-> [base_url |-> "http://radarr/"]]

\* the value the model uses for a None of each attribute
NoneOf(attr) ==
  CASE attr \in {"season", "episode"} -> NoneInt
    [] attr = "series_tvdb_id" -> 0
    [] attr = "imdb_id" -> ""
    [] attr \in {"release_group", "original_name", "name"} -> <<>>
    [] OTHER -> None

CamelCase(key) == IF key = "series_id" THEN "seriesId" ELSE key

\* build_params: the keys become camelCase (the values are quoted text of
\* themselves, which the model keeps as they are)
BuildParams(params) ==
  [k \in {CamelCase(key) : key \in DOMAIN params} |->
     params[CHOOSE key \in DOMAIN params : CamelCase(key) = k]]

\* DroneAPIClient.__init__: api_url is base_url followed by "api/"
ApiUrl(cfg) == <<cfg.base_url, "api/">>

\* mutant of Get: the response's status is not checked
GetUnchecked(client, endpoint, params, resp) ==
  [raised |-> FALSE,
   value |-> resp.json,
   req |-> [url |-> ApiUrl(client.cfg) \o <<endpoint>>, endpoint |-> endpoint,
            params |-> BuildParams(params)]]

\* DroneAPIClient.get: one request; resp is what the backend answers
Get(client, endpoint, params, resp) ==
  [raised |-> resp.status >= 400,
   value |-> IF resp.status >= 400 \/ resp.json = <<>> THEN <<>> ELSE resp.json,
   req |-> [url |-> ApiUrl(client.cfg) \o <<endpoint>>, endpoint |-> endpoint,
            params |-> BuildParams(params)]]

\* should_cache_fn=lambda x: bool(x)
ShouldCache(x) == x # <<>>

NoValue == [has |-> FALSE, value |-> <<>>]
Cached(list) == [has |-> TRUE, value |-> list]

\* the cache after the decorated function answered r: the answer is stored
\* when should_cache_fn accepts it
Store(cache, r) ==
  [raised |-> r.raised, value |-> r.value,
   cache |-> IF ~r.raised /\ ShouldCache(r.value) THEN Cached(r.value) ELSE cache,
   reqs |-> <<r.req>>]

\* mutant of CacheOnArguments: the cached value is never used
CacheNeverHit(client, endpoint, cache, resp) ==
  Store(cache, Get(client, endpoint, EmptyDict, resp))

\* region.cache_on_arguments: the cached value if there is one, else the
\* function is called
CacheOnArguments(client, endpoint, cache, resp) ==
  IF cache.has
  THEN [raised |-> FALSE, value |-> cache.value, cache |-> cache, reqs |-> <<>>]
  ELSE Store(cache, Get(client, endpoint, EmptyDict, resp))

\* the cache after a refresh answered r: refresh() sets the key to the new
\* value without asking should_cache_fn
StoreRefreshed(cache, r) ==
  [raised |-> r.raised, value |-> r.value,
   cache |-> IF r.raised THEN cache ELSE Cached(r.value),
   reqs |-> <<r.req>>]

\* <cached function>.refresh(): calls the function and stores its result
Refresh(client, endpoint, cache, resp) ==
  StoreRefreshed(cache, Get(client, endpoint, EmptyDict, resp))

\* mutant of HasNeeds: only the first needed attribute is looked at
HasFirstNeed(video, needs) == video[needs[1]] # NoneOf(needs[1])

\* needs_attrs_to_work: no needed attribute of the video is None
HasNeeds(video, needs) ==
  \A k \in 1..Len(needs) : video[needs[k]] # NoneOf(needs[k])

\* the dict get_additional_data returns, or the None
NoData == [none |-> TRUE, dict |-> EmptyDict]
Data(d) == [none |-> FALSE, dict |-> d]

\* what a get_additional_data leaves behind: whether it raised, its return
\* value, the cache, the requests sent, and what the lookup returned
Outcome(raised, data, cache, reqs, show_id, movie) ==
  [raised |-> raised, data |-> data, cache |-> cache, reqs |-> reqs,
   show |-> show_id, movie |-> movie]

\* ---------------------------------------------------------- SonarrClient
SonarrNeeds == <<"series", "season", "episode">>
\* mutant of FillAttrs: the title is filled from the guess as well
FillAttrsWithTitle == {"release_group", "format", "title"}
FillAttrs == {"release_group", "format"}

IsCorrectShow(s, video) ==
  \/ s.title = video.series
  \/ /\ video.series_tvdb_id # 0
     /\ "tvdbId" \in DOMAIN s
     /\ s.tvdbId = video.series_tvdb_id

\* mutant of FirstShow: the last matching show instead of the first
LastShow(list, video) ==
  IF \E i \in 1..Len(list) : IsCorrectShow(list[i], video)
  THEN CHOOSE i \in 1..Len(list) :
         /\ IsCorrectShow(list[i], video)
         /\ \A j \in (i + 1)..Len(list) : ~IsCorrectShow(list[j], video)
  ELSE 0

\* the position in list of the first show the loop accepts, 0 if none
FirstShow(list, video) ==
  IF \E i \in 1..Len(list) : IsCorrectShow(list[i], video)
  THEN CHOOSE i \in 1..Len(list) :
         /\ IsCorrectShow(list[i], video)
         /\ \A j \in 1..(i - 1) : ~IsCorrectShow(list[j], video)
  ELSE 0

GetAllSeries(client, cache, resp) == CacheOnArguments(client, "series", cache, resp)

\* what get_show_id returns: found = FALSE stands for None
ShowId(raised, found, id, cache, reqs) ==
  [raised |-> raised, found |-> found, id |-> id, cache |-> cache, reqs |-> reqs]

\* get_show_id's second loop, over the refreshed list b
ScanRefreshedSeries(video, a, b) ==
  IF ~b.raised /\ FirstShow(b.value, video) # 0
  THEN ShowId(FALSE, TRUE, b.value[FirstShow(b.value, video)].id, b.cache, a.reqs \o b.reqs)
  ELSE ShowId(b.raised, FALSE, 0, b.cache, a.reqs \o b.reqs)

\* get_show_id's first loop, over the list a that get_all_series returned
ScanSeries(client, video, a, r2) ==
  IF a.raised THEN ShowId(TRUE, FALSE, 0, a.cache, a.reqs)
  ELSE IF FirstShow(a.value, video) # 0
  THEN ShowId(FALSE, TRUE, a.value[FirstShow(a.value, video)].id, a.cache, a.reqs)
  ELSE ScanRefreshedSeries(video, a, Refresh(client, "series", a.cache, r2))

GetShowId(client, video, cache, r1, r2) ==
  ScanSeries(client, video, GetAllSeries(client, cache, r1), r2)

\* mutant of IsCorrectEpisode: the season is not compared
SameEpisodeNumber(e, video) == e.episodeNumber = video.episode

IsCorrectEpisode(e, video) ==
  e.seasonNumber = video.season /\ e.episodeNumber = video.episode

\* the position in list of the first episode the loop accepts, 0 if none
FirstEpisode(list, video) ==
  IF \E i \in 1..Len(list) : IsCorrectEpisode(list[i], video)
  THEN CHOOSE i \in 1..Len(list) :
         /\ IsCorrectEpisode(list[i], video)
         /\ \A j \in 1..(i - 1) : ~IsCorrectEpisode(list[j], video)
  ELSE 0

\* episode.get("episodeFile", {}).get("sceneName") of the i-th episode
EpisodeSceneName(list, i) ==
  IF i = 0 THEN <<>>
  ELSE DictGet(DictGet(list[i], "episodeFile", EmptyDict), "sceneName", <<>>)

\* get_additional_data's loop over the episodes that request g returned
ScanEpisodes(video, s, g) ==
  Outcome(g.raised,
          IF ~g.raised /\ EpisodeSceneName(g.value, FirstEpisode(g.value, video)) # <<>>
          THEN Data([scene_name |->
                       EpisodeSceneName(g.value, FirstEpisode(g.value, video))])
          ELSE NoData,
          s.cache, Append(s.reqs, g.req), s.id, <<>>)

\* get_additional_data once get_show_id answered s
QueryEpisodes(client, video, s, re) ==
  IF s.raised \/ ~s.found \/ s.id = 0
  THEN Outcome(s.raised, NoData, s.cache, s.reqs, s.id, <<>>)
  ELSE ScanEpisodes(video, s, Get(client, "episode", [series_id |-> s.id], re))

SonarrGetAdditionalData(client, video, cache, r1, r2, re) ==
  IF ~HasNeeds(video, SonarrNeeds)
  THEN Outcome(FALSE, NoData, cache, <<>>, 0, <<>>)
  ELSE QueryEpisodes(client, video, GetShowId(client, video, cache, r1, r2), re)

\* ---------------------------------------------------------- RadarrClient
RadarrNeeds == <<"title">>

\* mutant of IsCorrectMovie: the imdb ids are not compared
IsCorrectMovieAnyImdb(m, video) ==
  \/ m.title = video.title
  \/ video.imdb_id # "" /\ "imdbId" \in DOMAIN m
  \/ DictGet(DictGet(m, "movieFile", EmptyDict), "relativePath", <<>>) = Basename(video.name)

\* is_correct_movie, with movie_fn = os.path.basename(video.name)
IsCorrectMovie(m, video) ==
  \/ m.title = video.title
  \/ /\ video.imdb_id # ""
     /\ "imdbId" \in DOMAIN m
     /\ m.imdbId = video.imdb_id
  \/ DictGet(DictGet(m, "movieFile", EmptyDict), "relativePath", <<>>) = Basename(video.name)

\* the position in list of the first movie the loop accepts, 0 if none
FirstMovie(list, video) ==
  IF \E i \in 1..Len(list) : IsCorrectMovie(list[i], video)
  THEN CHOOSE i \in 1..Len(list) :
         /\ IsCorrectMovie(list[i], video)
         /\ \A j \in 1..(i - 1) : ~IsCorrectMovie(list[j], video)
  ELSE 0

GetAllMovies(client, cache, resp) == CacheOnArguments(client, "movie", cache, resp)

\* what get_movie returns: movie = <<>> stands for None, <<m>> for m
MovieResult(raised, found, cache, reqs) ==
  [raised |-> raised, movie |-> found, cache |-> cache, reqs |-> reqs]

\* get_movie's second loop, over the refreshed list b
ScanRefreshedMovies(video, a, b) ==
  IF ~b.raised /\ FirstMovie(b.value, video) # 0
  THEN MovieResult(FALSE, <<b.value[FirstMovie(b.value, video)]>>, b.cache, a.reqs \o b.reqs)
  ELSE MovieResult(b.raised, <<>>, b.cache, a.reqs \o b.reqs)

\* get_movie's first loop, over the list a that get_all_movies returned
ScanMovies(client, video, a, r2) ==
  IF a.raised THEN MovieResult(TRUE, <<>>, a.cache, a.reqs)
  ELSE IF FirstMovie(a.value, video) # 0
  THEN MovieResult(FALSE, <<a.value[FirstMovie(a.value, video)]>>, a.cache, a.reqs)
  ELSE ScanRefreshedMovies(video, a, Refresh(client, "movie", a.cache, r2))

GetMovie(client, video, cache, r1, r2) ==
  ScanMovies(client, video, GetAllMovies(client, cache, r1), r2)

\* the additional_data dict built from a movie file's scene name and
\* release group: a key is set only for a value that is not empty
RadarrDict(scene_name, release_group) ==
  [k \in (IF scene_name # <<>> THEN {"scene_name"} ELSE {})
           \cup (IF release_group # <<>> THEN {"release_group"} ELSE {}) |->
     IF k = "scene_name" THEN scene_name ELSE release_group]

MovieFile(movie) == DictGet(movie, "movieFile", EmptyDict)

RadarrData(movie) ==
  RadarrDict(DictGet(MovieFile(movie), "sceneName", <<>>),
             DictGet(MovieFile(movie), "releaseGroup", <<>>))

\* get_additional_data once get_movie answered m
ReadMovie(m) ==
  Outcome(m.raised,
          IF m.raised \/ m.movie = <<>> THEN NoData ELSE Data(RadarrData(m.movie[1])),
          m.cache, m.reqs, 0, m.movie)

RadarrGetAdditionalData(client, video, cache, r1, r2) ==
  IF ~HasNeeds(video, RadarrNeeds)
  THEN Outcome(FALSE, NoData, cache, <<>>, 0, <<>>)
  ELSE ReadMovie(GetMovie(client, video, cache, r1, r2))

\* ----------------------------------------------- update_video and refine
\* get_guess: the name guessit is run on; guessit's answer is an input
GuessFrom(video, scene_name) == RemoveCrap(scene_name \o SplitExt(video.name))

\* mutant of UpdateVideo: an attribute the video already has is kept
UpdateVideoKeeping(video, scene_name, guess) ==
  [attr \in DOMAIN video |->
     IF attr = "original_name" THEN GuessFrom(video, scene_name)
     ELSE IF attr \in FillAttrs /\ attr \in DOMAIN guess /\ video[attr] = NoneOf(attr)
     THEN guess[attr]
     ELSE video[attr]]

UpdateVideo(video, scene_name, guess) ==
  [attr \in DOMAIN video |->
     IF attr = "original_name" THEN GuessFrom(video, scene_name)
     ELSE IF attr \in FillAttrs /\ attr \in DOMAIN guess THEN guess[attr]
     ELSE video[attr]]

\* DroneManager.registry, and each client class's cfg_name
Registry == [Episode |-> "SonarrClient", Movie |-> "RadarrClient"]
\* mutant of CfgName: every client is built from the "sonarr" configuration
CfgNameSonarr(cls) == "sonarr"
CfgName(cls) == IF cls = "SonarrClient" THEN "sonarr" ELSE "radarr"

NoClient == [cls |-> None, cfg |-> [base_url |-> None]]

\* DroneManager.get_client
GetClient(video, cfg_kwa) ==
  IF video.type \notin DOMAIN Registry
  THEN [raised |-> TRUE, client |-> NoClient]
  ELSE [raised |-> FALSE,
        client |-> [cls |-> Registry[video.type],
                    cfg |-> cfg_kwa[CfgName(Registry[video.type])]]]

GetAdditionalData(client, video, caches, in) ==
  IF client.cls = "SonarrClient"
  THEN SonarrGetAdditionalData(client, video, caches.series, in.r1, in.r2, in.re)
  ELSE RadarrGetAdditionalData(client, video, caches.movies, in.r1, in.r2)

\* the scene-name update of refine
FillFromSceneName(video, dict, guess) ==
  IF "scene_name" \in DOMAIN dict
  THEN UpdateVideo(video, dict.scene_name, guess)
  ELSE video

\* mutant of FillReleaseGroup: the backend's release group is always taken
FillReleaseGroupAlways(video, dict) ==
  IF "release_group" \in DOMAIN dict
  THEN [video EXCEPT !.release_group = RemoveCrap(dict.release_group)]
  ELSE video

\* the release-group fallback at the end of refine
FillReleaseGroup(video, dict) ==
  IF "release_group" \in DOMAIN dict /\ video.release_group = <<>>
  THEN [video EXCEPT !.release_group = RemoveCrap(dict.release_group)]
  ELSE video

\* refine from "if additional_data:" on
UseData(video, data, guess) ==
  IF data.none \/ DOMAIN data.dict = {}
  THEN video
  ELSE FillReleaseGroup(FillFromSceneName(video, data.dict, guess), data.dict)

\* how a call of refine ended and what it left behind
Result(outcome, video, client, caches, a) ==
  [outcome |-> outcome, video |-> video, client |-> client, caches |-> caches,
   reqs |-> a.reqs, data |-> a.data, show |-> a.show, movie |-> a.movie]

\* refine once get_additional_data answered a
RefineWithData(video, client, caches, a, guess) ==
  Result(IF a.raised THEN "HTTPError" ELSE "returned",
         IF a.raised THEN video ELSE UseData(video, a.data, guess),
         client,
         IF client.cls = "SonarrClient"
         THEN [caches EXCEPT !.series = a.cache]
         ELSE [caches EXCEPT !.movies = a.cache],
         a)

\* refine once get_client answered c
RefineWithClient(video, c, caches, in) ==
  IF c.raised
  THEN Result("NotImplementedError", video, c.client, caches,
              Outcome(TRUE, NoData, NoValue, <<>>, 0, <<>>))
  ELSE RefineWithData(video, c.client, caches,
                      GetAdditionalData(c.client, video, caches, in), in.guess)

\* refine(video, **cfg_kwa), given the cached lists, the backend's answers
\* in.r1, in.r2, in.re and guessit's answer in.guess
Refine(video, cfg_kwa, caches, in) ==
  RefineWithClient(video, GetClient(video, cfg_kwa), caches, in)

\* ------------------------------------------------------------- the state
VARIABLES
  caches,     \* region's cache: the series list and the movie list
  phase,      \* "idle", or how the last call of refine ended
  video,      \* the video object the last call was given, as it is now
  before,     \* that object's attributes when the call began
  cached,     \* what the cache held when the call began
  client,     \* the client the call built
  requests,   \* the requests the call sent, in order
  inputs,     \* the backend's answers and guessit's answer in the call
  data,       \* what get_additional_data returned
  show,       \* what get_show_id returned (0: nothing)
  movie       \* what get_movie returned (<<>>: nothing)

vars == <<caches, phase, video, before, cached, client, requests, inputs, data, show, movie>>

Unused == [status |-> 0, json |-> <<>>]
NoGuess == EmptyDict
In(r1, r2, re, guess) == [r1 |-> r1, r2 |-> r2, re |-> re, guess |-> guess]
NoVideo == Video(None, <<>>, None, NoneInt, NoneInt, None, 0, "", <<>>, None)
NoCaches == [series |-> NoValue, movies |-> NoValue]

Init ==
  /\ caches = NoCaches
  /\ phase = "idle"
  /\ video = NoVideo
  /\ before = NoVideo
  /\ cached = NoCaches
  /\ client = NoClient
  /\ requests = <<>>
  /\ inputs = In(Unused, Unused, Unused, NoGuess)
  /\ data = NoData
  /\ show = 0
  /\ movie = <<>>

\* the state after a call refine(v, **CfgKwa) that ended as r
Record(v, in, r) ==
  /\ phase' = r.outcome
  /\ video' = r.video
  /\ before' = v
  /\ cached' = caches
  /\ caches' = r.caches
  /\ client' = r.client
  /\ requests' = r.reqs
  /\ inputs' = in
  /\ data' = r.data
  /\ show' = r.show
  /\ movie' = r.movie

\* one call refine(v, **CfgKwa) from beginning to end
Call(v, in) == Record(v, in, Refine(v, CfgKwa, caches, in))

\* the answers the backend can give where the call asks, Unused elsewhere
Answers(asked, lists) == IF asked THEN Responses(lists) ELSE {Unused}

WantsGuess(v, r1, r2, re) ==
  "scene_name" \in DOMAIN Refine(v, CfgKwa, caches, In(r1, r2, re, NoGuess)).data.dict

GuessAnswers(v, r1, r2, re) == IF WantsGuess(v, r1, r2, re) THEN Guesses ELSE {NoGuess}

Missed(a, n) == ~a.raised /\ n = 0

MissesShow(v, r1) ==
  Missed(GetAllSeries(NoClient, caches.series, r1),
         FirstShow(GetAllSeries(NoClient, caches.series, r1).value, v))

Found(s) == ~s.raised /\ s.found /\ s.id # 0

FindsShow(v, r1, r2) == Found(GetShowId(NoClient, v, caches.series, r1, r2))

MissesMovie(v, r1) ==
  Missed(GetAllMovies(NoClient, caches.movies, r1),
         FirstMovie(GetAllMovies(NoClient, caches.movies, r1).value, v))

RefineEpisode ==
  /\ phase = "idle"
  /\ \E v \in Episodes :
       \E r1 \in Answers(HasNeeds(v, SonarrNeeds) /\ ~caches.series.has, SeriesLists) :
       \E r2 \in Answers(HasNeeds(v, SonarrNeeds) /\ MissesShow(v, r1), SeriesLists) :
       \E re \in Answers(HasNeeds(v, SonarrNeeds) /\ FindsShow(v, r1, r2), EpisodeLists) :
       \E g \in GuessAnswers(v, r1, r2, re) :
         Call(v, In(r1, r2, re, g))

RefineMovie ==
  /\ phase = "idle"
  /\ \E v \in Movies :
       \E r1 \in Answers(HasNeeds(v, RadarrNeeds) /\ ~caches.movies.has, MovieLists) :
       \E r2 \in Answers(HasNeeds(v, RadarrNeeds) /\ MissesMovie(v, r1), MovieLists) :
       \E g \in GuessAnswers(v, r1, r2, Unused) :
         Call(v, In(r1, r2, Unused, g))

RefineOther ==
  /\ phase = "idle"
  /\ \E v \in Others : Call(v, In(Unused, Unused, Unused, NoGuess))

\* the caller goes on to its next video
NextVideo ==
  /\ phase # "idle"
  /\ phase' = "idle"
  /\ video' = NoVideo
  /\ before' = NoVideo
  /\ cached' = NoCaches
  /\ client' = NoClient
  /\ requests' = <<>>
  /\ inputs' = In(Unused, Unused, Unused, NoGuess)
  /\ data' = NoData
  /\ show' = 0
  /\ movie' = <<>>
  /\ UNCHANGED caches

Next == RefineEpisode \/ RefineMovie \/ RefineOther \/ NextVideo

Spec == Init /\ [][Next]_vars

\* ======================================================== the properties
\* what the properties read off a finished call
Ended == phase # "idle"
Returned == phase = "returned"
ForSonarr == Ended /\ before.type = "Episode"
ForRadarr == Ended /\ before.type = "Movie"

\* a needed attribute of the video is None
MissingData ==
  \/ ForSonarr /\ (before.series = None \/ before.season = NoneInt \/ before.episode = NoneInt)
  \/ ForRadarr /\ before.title = None

\* some request of the call was answered with an error status
RequestFailed == Failed \in {inputs.r1, inputs.r2, inputs.re}

\* the claims' notion of a show, a movie and an episode matching the video
ShowMatches(s) ==
  \/ s.title = before.series
  \/ before.series_tvdb_id # 0 /\ "tvdbId" \in DOMAIN s /\ s.tvdbId = before.series_tvdb_id

MovieMatchesById(m) ==
  \/ m.title = before.title
  \/ before.imdb_id # "" /\ "imdbId" \in DOMAIN m /\ m.imdbId = before.imdb_id

MovieMatchesByPath(m) ==
  /\ "movieFile" \in DOMAIN m
  /\ "relativePath" \in DOMAIN m.movieFile
  /\ m.movieFile.relativePath = Basename(before.name)

MovieMatches(m) == MovieMatchesById(m) \/ MovieMatchesByPath(m)

EpisodeMatches(e) ==
  e.seasonNumber = before.season /\ e.episodeNumber = before.episode

HasSceneName(rec, file) ==
  /\ file \in DOMAIN rec
  /\ "sceneName" \in DOMAIN rec[file]
  /\ rec[file].sceneName # <<>>

\* the list the lookup scanned first (what get_all_series or get_all_movies
\* returned), and the refreshed list
CacheBefore == IF before.type = "Episode" THEN cached.series ELSE cached.movies
FirstList == IF CacheBefore.has THEN CacheBefore.value ELSE inputs.r1.json
RefreshedList == inputs.r2.json
Matches(x) == IF before.type = "Episode" THEN ShowMatches(x) ELSE MovieMatches(x)
HasMatch(list) == \E i \in 1..Len(list) : Matches(list[i])

\* x is the first element of list that matches the video
IsFirstMatch(list, x) ==
  \E i \in 1..Len(list) :
    /\ list[i] = x
    /\ Matches(list[i])
    /\ \A j \in 1..(i - 1) : ~Matches(list[j])

\* the lookup ran and its first list arrived
LookupRan ==
  /\ ForSonarr \/ ForRadarr
  /\ ~MissingData
  /\ inputs.r1 # Failed

\* the list requests of the call
ListRequests == {i \in 1..Len(requests) : requests[i].endpoint \in {"series", "movie"}}

\* the list in which the lookup found its answer
ListUsed == IF HasMatch(FirstList) THEN FirstList ELSE RefreshedList

\* the non-empty scene name the backend reported for the video, <<>> if none
BackendSceneName ==
  IF ForRadarr
  THEN IF movie # <<>> /\ HasSceneName(movie[1], "movieFile")
       THEN movie[1].movieFile.sceneName ELSE <<>>
  ELSE IF ForSonarr /\ show # 0 /\ inputs.re.status = 200
          /\ \E i \in 1..Len(inputs.re.json) :
               EpisodeMatches(inputs.re.json[i]) /\ HasSceneName(inputs.re.json[i], "episodeFile")
       THEN LET i == CHOOSE k \in 1..Len(inputs.re.json) :
                       EpisodeMatches(inputs.re.json[k])
                       /\ HasSceneName(inputs.re.json[k], "episodeFile")
            IN inputs.re.json[i].episodeFile.sceneName
       ELSE <<>>

\* the release group the backend reported for the video, <<>> if none
BackendReleaseGroup ==
  IF ForRadarr /\ movie # <<>> /\ "movieFile" \in DOMAIN movie[1]
     /\ "releaseGroup" \in DOMAIN movie[1].movieFile
  THEN movie[1].movieFile.releaseGroup
  ELSE <<>>

GotSceneName == Returned /\ BackendSceneName # <<>>
Guessed(attr) == attr \in DOMAIN inputs.guess

\* ------------------------------------------------------------------- C1
\* C1, as stated: after a refine that got a non-empty scene name,
\* original_name is the cleaned scene name with the video's extension, each
\* of release_group and format that the guess holds equals the guessed
\* value, and each one the guess lacks keeps the value it had before.
C1_AsStated ==
  GotSceneName =>
    /\ video.original_name = RemoveCrap(BackendSceneName \o SplitExt(before.name))
    /\ \A attr \in {"release_group", "format"} :
         IF Guessed(attr)
         THEN video[attr] = inputs.guess[attr]
         ELSE video[attr] = before[attr]

\* C1, amended: as C1, except that a release_group the guess lacks, that
\* was empty before refine, becomes the backend's cleaned release group when
\* the backend reports one.
C1_SceneNameUpdate ==
  GotSceneName =>
    /\ video.original_name = RemoveCrap(BackendSceneName \o SplitExt(before.name))
    /\ IF Guessed("format")
       THEN video.format = inputs.guess.format
       ELSE video.format = before.format
    /\ IF Guessed("release_group")
       THEN video.release_group = inputs.guess.release_group
       ELSE IF before.release_group = <<>> /\ BackendReleaseGroup # <<>>
       THEN video.release_group = RemoveCrap(BackendReleaseGroup)
       ELSE video.release_group = before.release_group

C1_Witness ==
  /\ GotSceneName
  /\ SplitExt(before.name) # <<>>
  /\ Guessed("format") /\ video.format # before.format
  /\ ~Guessed("release_group")
  /\ BackendReleaseGroup # <<>>
  /\ video.release_group # before.release_group

\* ------------------------------------------------------------------- C2
\* C2: get_show_id returns the id of the first matching show of the list
\* get_all_series returned, without a refresh; only when that list has no
\* match does it refresh, once, storing the refreshed list, and return the
\* id of its first matching show, or nothing when it has none either.
C2_GetShowId ==
  (ForSonarr /\ LookupRan) =>
    /\ HasMatch(FirstList) =>
         /\ \E i \in 1..Len(FirstList) :
              IsFirstMatch(FirstList, FirstList[i]) /\ show = FirstList[i].id
         /\ Cardinality(ListRequests) = IF cached.series.has THEN 0 ELSE 1
    /\ ~HasMatch(FirstList) =>
         /\ Cardinality(ListRequests) = IF cached.series.has THEN 1 ELSE 2
         /\ inputs.r2 # Failed =>
              /\ RefreshedList # <<>> => caches.series = Cached(RefreshedList)
              /\ IF HasMatch(RefreshedList)
                 THEN \E i \in 1..Len(RefreshedList) :
                        /\ IsFirstMatch(RefreshedList, RefreshedList[i])
                        /\ show = RefreshedList[i].id
                 ELSE show = 0

C2_Witness ==
  /\ ForSonarr /\ LookupRan
  /\ cached.series.has
  /\ ~HasMatch(FirstList)
  /\ Cardinality({i \in 1..Len(RefreshedList) : Matches(RefreshedList[i])}) = 2
  /\ show = RefreshedList[1].id

\* ------------------------------------------------------------------- C3
\* C3, as stated: the movie get_movie returns has the video's title or the
\* video's non-empty imdb id; a record matching on neither is not returned.
C3_AsStated ==
  (ForRadarr /\ movie # <<>>) => MovieMatchesById(movie[1])

\* C3, amended: the movie get_movie returns has the video's title, or the
\* video's non-empty imdb id, or a file whose relativePath is the base name
\* of video.name; a record matching on none of the three is not returned.
C3_GetMovie ==
  (ForRadarr /\ movie # <<>>) =>
    MovieMatchesById(movie[1]) \/ MovieMatchesByPath(movie[1])

C3_Witness ==
  /\ ForRadarr /\ movie # <<>>
  /\ ~MovieMatchesById(movie[1])
  /\ MovieMatchesByPath(movie[1])

\* ------------------------------------------------------------------- C4
\* C4: an Episode is handled by the Sonarr client built from the "sonarr"
\* configuration, a Movie by the Radarr client built from the "radarr"
\* configuration; for a video of any other type refine raises
\* NotImplementedError, having sent no request and changed nothing.
C4_Dispatch ==
  Ended =>
    /\ before.type = "Episode" =>
         /\ client = [cls |-> "SonarrClient", cfg |-> CfgKwa.sonarr]
         /\ phase # "NotImplementedError"
         /\ \A i \in 1..Len(requests) : requests[i].url[1] = CfgKwa.sonarr.base_url
    /\ before.type = "Movie" =>
         /\ client = [cls |-> "RadarrClient", cfg |-> CfgKwa.radarr]
         /\ phase # "NotImplementedError"
         /\ \A i \in 1..Len(requests) : requests[i].url[1] = CfgKwa.radarr.base_url
    /\ before.type \notin {"Episode", "Movie"} =>
         /\ phase = "NotImplementedError"
         /\ requests = <<>>
         /\ video = before
         /\ caches = cached

C4_Witness ==
  /\ phase = "NotImplementedError"
  /\ before.type = "EpisodeSubclass"
  /\ caches.series.has /\ caches.movies.has

\* ------------------------------------------------------------------- C5
\* the skip outcomes the claim lists, read off the backend's answers
ShowOrMovieNotFound ==
  /\ LookupRan /\ ~RequestFailed
  /\ ~HasMatch(ListUsed)

EpisodeNotFound ==
  /\ ForSonarr /\ LookupRan /\ ~RequestFailed /\ HasMatch(ListUsed)
  /\ \A i \in 1..Len(inputs.re.json) : ~EpisodeMatches(inputs.re.json[i])

NothingToFill ==
  /\ LookupRan /\ ~RequestFailed /\ HasMatch(ListUsed)
  /\ ForSonarr => \E i \in 1..Len(inputs.re.json) : EpisodeMatches(inputs.re.json[i])
  /\ BackendSceneName = <<>>
  /\ BackendReleaseGroup = <<>>

\* C5: with a needed attribute missing no request is sent; and in every
\* skip outcome (attribute missing, show or movie not found, episode not
\* found, no scene name and no release group) refine returns normally and
\* the video is unchanged.
C5_LogAndSkip ==
  /\ MissingData => requests = <<>> /\ caches = cached
  /\ (MissingData \/ ShowOrMovieNotFound \/ EpisodeNotFound \/ NothingToFill) =>
       Returned /\ video = before

C5_Witness ==
  /\ ForSonarr /\ NothingToFill
  /\ Len(requests) = 3

\* ------------------------------------------------------------------- C6
\* C6, as stated: when a request of refine fails, refine returns normally
\* and the video is unchanged.
C6_AsStated ==
  (Ended /\ RequestFailed) => Returned /\ video = before

\* C6, amended: when a request of refine fails, refine does not return
\* normally: the request's error leaves refine as an exception, after the
\* failing request no further request is sent, and the video is unchanged.
C6_RequestFails ==
  (Ended /\ RequestFailed) =>
    /\ phase = "HTTPError"
    /\ video = before
    /\ data = NoData
    /\ Len(requests) = Cardinality({k \in {"r1", "r2", "re"} : inputs[k] # Unused})

C6_Witness ==
  /\ phase = "HTTPError"
  /\ inputs.re = Failed
  /\ Len(requests) = 3

\* ------------------------------------------------------------------- C7
\* C7: a lookup requests the list endpoint only if the cache holds no list
\* or no entry of the cached list matches the video; a lookup that finds a
\* match in the cached list sends no list request; and a lookup sends at
\* most two list requests, two only to fill an empty cache and to refresh.
C7_ListRequests ==
  Ended =>
    /\ ListRequests # {} => (~CacheBefore.has \/ ~HasMatch(CacheBefore.value))
    /\ (LookupRan /\ CacheBefore.has /\ HasMatch(CacheBefore.value)) => ListRequests = {}
    /\ Cardinality(ListRequests) <= 2
    /\ Cardinality(ListRequests) = 2 => ~CacheBefore.has

C7_Witness ==
  /\ Ended
  /\ Cardinality(ListRequests) = 2
  /\ caches.series.has /\ caches.movies.has

ReleaseGroupAfterUpdate ==
  IF BackendSceneName # <<>> /\ Guessed("release_group")
  THEN inputs.guess.release_group
  ELSE before.release_group

\* C9: the backend's release group never replaces a release group the
\* video has after the scene-name update, be it the one it had before or
\* the one guessed from the scene name.
C9_ReleaseGroupPrecedence ==
  (Returned /\ BackendReleaseGroup # <<>> /\ ReleaseGroupAfterUpdate # <<>>) =>
    video.release_group = ReleaseGroupAfterUpdate

C9_Witness ==
  /\ Returned
  /\ BackendReleaseGroup # <<>>
  /\ BackendSceneName # <<>>
  /\ Guessed("release_group")
  /\ before.release_group = <<>>
  /\ video.release_group = inputs.guess.release_group
  /\ video.release_group # RemoveCrap(BackendReleaseGroup)

\* ------------------------------------------------------------------ C10
Changeable == {"release_group", "format", "original_name"}

\* C10: however refine ends, only release_group, format and original_name
\* can differ afterwards, and original_name differs only when the backend
\* returned a non-empty scene name.
C10_Frame ==
  Ended =>
    /\ \A attr \in DOMAIN before \ Changeable : video[attr] = before[attr]
    /\ DOMAIN video = DOMAIN before
    /\ video.original_name # before.original_name => BackendSceneName # <<>>

C10_Witness ==
  /\ Returned
  /\ video.original_name # before.original_name
  /\ video.release_group # before.release_group
  /\ video.format # before.format
  /\ Guessed("title")
  /\ inputs.guess.title # before.title
====
